---------------------------- MODULE Spec2Model ----------------------------
(***************************************************************************)
(* ChatRelay bot: the relay run of ChatRelayBot.HandleAppMention, the      *)
(* retry loops of the Slack client and of the chat backend client, the     *)
(* event dispatcher of the Slack client, and the sentence splitter.        *)
(*                                                                         *)
(* Strings are sequences of one-character strings.  The fixed literals of  *)
(* the program ("Thinking...", the footer, the error prefixes) are single  *)
(* elements of such a sequence: they are never split or compared by part.  *)
(***************************************************************************)
EXTENDS Integers, Sequences, FiniteSets, TLC

(* ------------------------------ bounds --------------------------------- *)

\* Largest retry count the configuration is drawn from (0..MaxRetry).
MaxRetry == 1

\* Number of app_mention events that arrive on the socket.
MaxEvents == 2

\* Longest channel or user id handed to the key function in SpecKey.
MaxIdLen == 2

\* Longest input string handed to the splitter in SpecSplit.
MaxLen == 3

(* ------------------------------ strings -------------------------------- *)

\* regexp class [.!?] of bot.go:143
Punct == {".", "!", "?"}

\* regexp class \s of bot.go:143 (and the white space strings.TrimSpace cuts)
Space == {" "}

Alphabet == {"a", "b", ".", "!", "?", " "}

Ellipsis == <<".", ".", ".">>

Thinking == <<"Thinking...">>

Footer == <<"\n\n_Powered by ChatRelay_">>

SubStr(s, from, to) == [k \in 1..(to - from + 1) |-> s[from + k - 1]]

\* strings.TrimSpace
RECURSIVE TrimLeft(_)
TrimLeft(s) ==
    IF s # <<>> /\ Head(s) \in Space THEN TrimLeft(Tail(s)) ELSE s

RECURSIVE TrimRight(_)
TrimRight(s) ==
    IF s # <<>> /\ s[Len(s)] \in Space
    THEN TrimRight(SubStr(s, 1, Len(s) - 1))
    ELSE s

TrimSpace(s) == TrimRight(TrimLeft(s))

\* Index of the first position p >= from where the regexp ([.!?])\s+ matches,
\* or 0 when there is none (leftmost match of FindAllStringIndex).
RECURSIVE MatchStart(_, _)
MatchStart(s, from) ==
    IF from + 1 > Len(s) THEN 0
    ELSE IF s[from] \in Punct /\ s[from + 1] \in Space THEN from
    ELSE MatchStart(s, from + 1)

\* Last position of the match that starts at p: \s+ is greedy.
RECURSIVE MatchEnd(_, _)
MatchEnd(s, q) ==
    IF q + 1 <= Len(s) /\ s[q + 1] \in Space THEN MatchEnd(s, q + 1) ELSE q

\* regexp.Split(text, -1): the pieces between the matches; a match, its
\* punctuation mark included, belongs to no piece.
RECURSIVE RegexpSplitFrom(_, _)
RegexpSplitFrom(s, beg) ==
    LET p == MatchStart(s, beg)
    IN  IF p = 0 THEN << SubStr(s, beg, Len(s)) >>
        ELSE << SubStr(s, beg, p - 1) >> \o RegexpSplitFrom(s, MatchEnd(s, p + 1) + 1)

RegexpSplit(s) == RegexpSplitFrom(s, 1)

\* Faulty variant of CleanSentences: the pieces are not trimmed.
RECURSIVE CleanSentencesUntrimmed(_)
CleanSentencesUntrimmed(pieces) ==
    IF pieces = <<>> THEN <<>>
    ELSE (IF Head(pieces) # <<>> THEN <<Head(pieces)>> ELSE <<>>)
            \o CleanSentencesUntrimmed(Tail(pieces))

\* Faulty variant of CleanSentences: the empty pieces are kept.
RECURSIVE CleanSentencesKeepsEmpty(_)
CleanSentencesKeepsEmpty(pieces) ==
    IF pieces = <<>> THEN <<>>
    ELSE <<TrimSpace(Head(pieces))>> \o CleanSentencesKeepsEmpty(Tail(pieces))

\* The loop of splitIntoSentences: trim every piece, drop the empty ones.
RECURSIVE CleanSentences(_)
CleanSentences(pieces) ==
    IF pieces = <<>> THEN <<>>
    ELSE LET t == TrimSpace(Head(pieces))
         IN  (IF t # <<>> THEN <<t>> ELSE <<>>) \o CleanSentences(Tail(pieces))

\* Faulty variant of splitIntoSentences: the text is one sentence, blank or
\* not.
splitIntoSentencesWhole(text) == <<text>>

splitIntoSentences(text) == CleanSentences(RegexpSplit(text))

\* "Hello there. How are you? Fine!"
HelloText ==
    << "H","e","l","l","o"," ","t","h","e","r","e","."," ",
       "H","o","w"," ","a","r","e"," ","y","o","u","?"," ",
       "F","i","n","e","!" >>

HelloThere == << "H","e","l","l","o"," ","t","h","e","r","e","." >>

HowAreYou == << "H","o","w"," ","a","r","e"," ","y","o","u","?" >>

Fine == << "F","i","n","e","!" >>


(* ------------------------------- errors -------------------------------- *)

\* An error is the chain of its messages, outermost first; nil is <<>>.
\* fmt.Errorf("msg: %w", cause): with a nil cause the chain holds msg alone.
Nil == <<>>

Wrap(msg, cause) == <<msg>> \o cause

Unwrap(e) == Tail(e)

(* ---------------------------- configuration ---------------------------- *)

\* strconv.Atoi accepts any integer for the two retry counts.
RetryCounts == (0 - 1)..MaxRetry

Channels == { <<"C", "1">>, <<"C", "2">> }

Users == { <<"U", "1">> }

Queries == { <<"p", "i", "n", "g">> }

\* c.botUserID, the user id AuthTest gives the bot.
BotUserID == <<"B">>

\* fmt.Sprintf("<@%s>", c.botUserID): the marker of a mention of the bot.
BotMention == <<"<", "@">> \o BotUserID \o <<">">>

\* botMentionRegex.ReplaceAllString(text, ""): the occurrences of the marker
\* are found left to right, without overlap, in one pass, and left out.
RECURSIVE ReplaceAllString(_, _)
ReplaceAllString(text, marker) ==
    IF Len(text) < Len(marker) THEN text
    ELSE IF SubSeq(text, 1, Len(marker)) = marker
         THEN ReplaceAllString(SubSeq(text, Len(marker) + 1, Len(text)), marker)
         ELSE <<Head(text)>> \o ReplaceAllString(Tail(text), marker)

\* Faulty variant of Query: the white space around the text is kept.
QueryUntrimmed(text) == ReplaceAllString(text, BotMention)

\* client.go:155-156: the query handleEventsAPIEvent takes from the text of
\* an app_mention event.
Query(text) == TrimSpace(ReplaceAllString(text, BotMention))

\* client.go:158-164: the models.SlackEvent built from an app_mention event.
SlackEventOf(ev) ==
    [Channel |-> ev.Channel, User |-> ev.User, Text |-> Query(ev.Text)]

\* "<@B> ping"
PlainMention == <<"<", "@", "B", ">", " ", "p", "i", "n", "g">>

\* "  <@B> pi<@B>ng "
TwiceMention ==
    <<" ", " ", "<", "@", "B", ">", " ", "p", "i",
      "<", "@", "B", ">", "n", "g", " ">>

\* "<@<@B>B> ping"
NestedMention ==
    <<"<", "@", "<", "@", "B", ">", "B", ">", " ", "p", "i", "n", "g">>

\* "<@B> "
BareMention == <<"<", "@", "B", ">", " ">>

\* "<@U2> ping <@B>"
OtherUserMention ==
    <<"<", "@", "U", "2", ">", " ", "p", "i", "n", "g", " ",
      "<", "@", "B", ">">>

RawTexts ==
    {PlainMention, TwiceMention, NestedMention, BareMention, OtherUserMention}

\* slackevents.AppMentionEvent as it arrives: the text still holds the marker.
Mentions ==
    [Channel : {<<"C", "1">>}, User : {<<"U", "1">>, <<"U", "2">>},
     Text : RawTexts]

\* models.SlackEvent as handleEventsAPIEvent builds it
Events == [Channel : Channels, User : Users, Text : Queries]

\* The full_response values the backend answers with.
Answers ==
    { <<>>,
      <<" ">>,
      <<" ", "a">>,
      <<"a", "?", " ", " ", "b", "!">> }

\* Faulty variant of ConversationKey: the two ids are joined with nothing
\* between them.
ConversationKeyNoSeparator(e) == e.Channel \o e.User

\* fmt.Sprintf("%s-%s", event.Channel, event.User)
ConversationKey(e) == e.Channel \o <<"-">> \o e.User

Runs == 1..MaxEvents

VARIABLES
    slackRetryCount,       \* slack.Client.retryCount
    backendRetryCount,     \* httpClient.retryCount
    baseURLValid,          \* whether http.NewRequestWithContext accepts the URL
    slackClientSet,        \* whether ChatRelayBot.slackClient is not nil
    events,                \* socketClient.Events: mentions not yet read
    arrived,               \* mentions that have arrived so far
    dispatched,            \* mentions listenForEvents has read so far
    handling,              \* the run listenForEvents is inside, 0 at the loop head
    ongoingConversations,  \* ChatRelayBot.ongoingConversations
    run,                   \* the activation of HandleAppMention per mention
    mu,                    \* ChatRelayBot.mu: the run that holds it, 0 when free
    cancelled,             \* whether the context of main has been cancelled
    input,                 \* the argument of the function called on its own
    output,                \* what the function called on its own returned
    applied                \* whether the function called on its own has run

vars ==
    << slackRetryCount, backendRetryCount, baseURLValid, slackClientSet,
       events, arrived,
       dispatched, handling, ongoingConversations, run, mu, cancelled,
       input, output, applied >>

config ==
    << slackRetryCount, backendRetryCount, baseURLValid, slackClientSet >>

splitVars == << input, output, applied >>

\* One retry-wrapped call in progress: the loop variable i, the underlying
\* calls made, the delays slept, the named result err of the function and the
\* outcome of the latest attempt; user is the UserID of a ChatRequest.

\* Faulty variant of InLoop: the loop stops one iteration early.
InLoopOffByOne(i, retryCount) == i < retryCount

\* The condition of the three retry loops: for i := 0; i <= retryCount; i++
InLoop(i, retryCount) == i <= retryCount

\* Faulty variant of SleepsAfter: the last failed attempt is followed by a
\* delay too.
SleepsAfterAlways(i, retryCount) == TRUE

\* if i < c.retryCount { time.Sleep(c.retryDelay) }
SleepsAfter(i, retryCount) == i < retryCount

\* Faulty variant of NewOp: the call starts with one attempt already spent.
NewOpStartsAtOne(kind, channel, ts, text) ==
    [ kind |-> kind, channel |-> channel, ts |-> ts, text |-> text,
      i |-> 1, calls |-> 0, delays |-> 0, err |-> Nil, last |-> "none",
      at |-> "call", user |-> <<>> ]

NewOp(kind, channel, ts, text) ==
    [ kind |-> kind, channel |-> channel, ts |-> ts, text |-> text,
      i |-> 0, calls |-> 0, delays |-> 0, err |-> Nil, last |-> "none",
      at |-> "call", user |-> <<>> ]

NoOp == NewOp("none", <<>>, 0, <<>>)

IdleRun ==
    [ pc |-> "idle", event |-> [Channel |-> <<>>, User |-> <<>>, Text |-> <<>>],
      ts |-> 0, op |-> NoOp, backendErr |-> Nil, fullResponse |-> <<>>,
      sentences |-> <<>>, idx |-> 0, currentResponse |-> <<>>,
      result |-> Nil, log |-> <<>>, registered |-> 0, unregistered |-> 0,
      paces |-> 0, mapStep |-> "lock", cancelledIn |-> "none" ]

Init ==
    /\ slackRetryCount \in RetryCounts
    /\ backendRetryCount \in RetryCounts
    /\ baseURLValid \in BOOLEAN
    /\ slackClientSet = TRUE
    /\ events = <<>>
    /\ arrived = 0
    /\ dispatched = 0
    /\ handling = 0
    /\ ongoingConversations = [k \in {} |-> 0]
    /\ run = [r \in Runs |-> IdleRun]
    /\ mu = 0
    /\ cancelled = FALSE
    /\ input = <<>>
    /\ output = <<>>
    /\ applied = FALSE


(* --------------------------- the relay run ----------------------------- *)

SlackPhases == {"send", "errUpdate", "segUpdate", "finalUpdate", "report"}

\* bot.go:96
ErrorText(err) == <<"Apologies, I encountered an error: ">> \o err

\* client.go:171
OopsText(err) ==
    <<"Oops! Something went wrong while processing your request: ">> \o err

\* Faulty variant of FinalMessage: the answer is trimmed first.
FinalMessageTrimmed(fullResponse) == TrimSpace(fullResponse) \o Footer

\* bot.go:123
FinalMessage(fullResponse) == fullResponse \o Footer

\* Faulty variant of WriteSentence: the ellipsis follows every sentence.
WriteSentenceAlways(current, sentences, idx) ==
    current \o sentences[idx] \o Ellipsis

\* bot.go:110-113: the builder after sentence idx has been written to it.
WriteSentence(current, sentences, idx) ==
    current \o sentences[idx]
            \o (IF idx - 1 < Len(sentences) - 1 THEN Ellipsis ELSE <<>>)

\* What a returned retry-wrapped call leaves in the run's history: the
\* calls and delays it made, the outcome of its last attempt, and the value
\* or the error it returned.
LogEntry(rr, ok, value, err) ==
    [ kind |-> rr.op.kind, phase |-> rr.pc, channel |-> rr.op.channel,
      ts |-> rr.op.ts, text |-> rr.op.text, calls |-> rr.op.calls,
      delays |-> rr.op.delays, last |-> rr.op.last, ok |-> ok,
      user |-> rr.op.user,
      value |-> IF ok /\ rr.op.kind # "update" THEN <<value>> ELSE <<>>,
      err |-> err ]

\* bot.go:109-124: enter the iteration for sentence idx of the streaming
\* loop, or leave the loop for the final update.
EnterSegment(rr, idx) ==
    IF idx <= Len(rr.sentences)
    THEN LET cur == WriteSentence(rr.currentResponse, rr.sentences, idx)
         IN  [rr EXCEPT !.pc = "segUpdate", !.idx = idx,
                        !.currentResponse = cur,
                        !.op = NewOp("update", rr.event.Channel, rr.ts, cur)]
    ELSE [rr EXCEPT !.pc = "finalUpdate",
                    !.op = NewOp("update", rr.event.Channel, rr.ts,
                                 FinalMessage(rr.fullResponse))]

\* Faulty variant of AfterSend: the timestamp of the placeholder is dropped.
AfterSendDropsTs(rr, ok, ts, err) ==
    IF ok
    THEN [rr EXCEPT !.pc = "register", !.ts = 0]
    ELSE [rr EXCEPT !.pc = "returned",
                    !.result = Wrap("failed to send initial message", err)]

\* Faulty variant of AfterSend: the run goes on without a placeholder.
AfterSendGoesOn(rr, ok, ts, err) ==
    [rr EXCEPT !.pc = "register", !.ts = IF ok THEN ts ELSE 0]

\* bot.go:72-78: after SendMessage of the placeholder.
AfterSend(rr, ok, ts, err) ==
    IF ok
    THEN [rr EXCEPT !.pc = "register", !.ts = ts]
    ELSE [rr EXCEPT !.pc = "returned",
                    !.result = Wrap("failed to send initial message", err)]

\* Faulty variant of AfterBackend: the answer goes out in the final update
\* alone.
AfterBackendSkipsStreaming(rr, ok, answer, err) ==
    IF ok
    THEN EnterSegment([rr EXCEPT !.fullResponse = answer,
                                 !.sentences = splitIntoSentences(answer),
                                 !.currentResponse = <<>>],
                      Len(splitIntoSentences(answer)) + 1)
    ELSE [rr EXCEPT !.pc = "errUpdate", !.backendErr = err,
                    !.op = NewOp("update", rr.event.Channel, rr.ts,
                                 ErrorText(err))]

\* bot.go:90-107: after SendChatRequest.
AfterBackend(rr, ok, answer, err) ==
    IF ok
    THEN EnterSegment([rr EXCEPT !.fullResponse = answer,
                                 !.sentences = splitIntoSentences(answer),
                                 !.currentResponse = <<>>], 1)
    ELSE [rr EXCEPT !.pc = "errUpdate", !.backendErr = err,
                    !.op = NewOp("update", rr.event.Channel, rr.ts,
                                 ErrorText(err))]

\* Faulty variant of AfterErrorUpdate: a failed update replaces the backend
\* error in the result.
AfterErrorUpdateMasks(rr, ok, err) ==
    [rr EXCEPT !.pc = "returned",
               !.result = Wrap("backend communication failed",
                               IF ok THEN rr.backendErr ELSE err)]

\* bot.go:96-100: after the update that reports the backend failure.
AfterErrorUpdate(rr, ok, err) ==
    [rr EXCEPT !.pc = "returned",
               !.result = Wrap("backend communication failed", rr.backendErr)]

\* Faulty variant of AfterSegmentUpdate: a failed update ends the run.
AfterSegmentUpdateAbort(rr, ok, err) ==
    IF ok
    THEN [rr EXCEPT !.pc = "pace"]
    ELSE [rr EXCEPT !.pc = "returned",
                    !.result = Wrap("failed to update message", err)]

\* Faulty variant of AfterSegmentUpdate: no delay follows a failed update.
AfterSegmentUpdateHurries(rr, ok, err) ==
    IF ok
    THEN [rr EXCEPT !.pc = "pace"]
    ELSE EnterSegment(rr, rr.idx + 1)

\* bot.go:115-120: after the update for one sentence.
AfterSegmentUpdate(rr, ok, err) ==
    [rr EXCEPT !.pc = "pace"]

\* Faulty variant of AfterFinalUpdate: the error of the update is dropped.
AfterFinalUpdateIgnoresError(rr, ok, err) ==
    [rr EXCEPT !.pc = "unregister"]

\* bot.go:124-133: after the final update.
AfterFinalUpdate(rr, ok, err) ==
    IF ok
    THEN [rr EXCEPT !.pc = "unregister"]
    ELSE [rr EXCEPT !.pc = "returned",
                    !.result = Wrap("failed to send final message", err)]

\* client.go:171: the result of the report is dropped.
AfterReport(rr, ok, err) ==
    [rr EXCEPT !.pc = "reported"]

\* The statement of HandleAppMention (or of handleEventsAPIEvent, for the
\* report) that follows the return of the call in rr.op: ok tells whether it
\* returned a value, value is that value and err the error otherwise.
Continue(rr, ok, value, err) ==
    LET done == [rr EXCEPT !.log = Append(@, LogEntry(rr, ok, value, err)),
                           !.op = NoOp]
    IN  CASE rr.pc = "send"        -> AfterSend(done, ok, value, err)
          [] rr.pc = "backend"     -> AfterBackend(done, ok, value, err)
          [] rr.pc = "errUpdate"   -> AfterErrorUpdate(done, ok, err)
          [] rr.pc = "segUpdate"   -> AfterSegmentUpdate(done, ok, err)
          [] rr.pc = "finalUpdate" -> AfterFinalUpdate(done, ok, err)
          [] rr.pc = "report"      -> AfterReport(done, ok, err)

\* client.go:226 and client.go:269: the loop's err shadows the named result,
\* so the error returned after the loop wraps the named result.
SlackExhausted(op) ==
    IF op.kind = "send"
    THEN Wrap("failed to send message to Slack after retries", op.err)
    ELSE Wrap("failed to update message after retries", op.err)

\* The timestamp Slack gives a posted message: one per message, never reused.
\* A run posts at most its placeholder, and the dispatcher at most one report
\* for it.
PostedTs(r, phase) == IF phase = "send" THEN r ELSE MaxEvents + r

\* One PostMessageContext or UpdateMessageContext call of the retry loop of
\* SendMessage or UpdateMessage, with its outcome.  A call made with a
\* cancelled context fails.
SlackCall(r, ok) ==
    LET rr == run[r]
        called == [rr EXCEPT !.op.calls = @ + 1,
                             !.op.last = IF ok THEN "ok" ELSE "slack"]
    IN  /\ rr.pc \in SlackPhases
        /\ rr.op.at = "call"
        /\ InLoop(rr.op.i, slackRetryCount)
        /\ cancelled => ~ok
        /\ run' = [run EXCEPT ![r] =
              IF ok
              THEN Continue(called, TRUE, PostedTs(r, rr.pc), Nil)
              ELSE IF SleepsAfter(rr.op.i, slackRetryCount)
              THEN [called EXCEPT !.op.at = "sleep", !.op.delays = @ + 1]
              ELSE [called EXCEPT !.op.i = @ + 1]]
        /\ UNCHANGED << config, events, arrived, dispatched, handling,
                        ongoingConversations, splitVars, mu, cancelled >>

\* The loop condition of SendMessage or UpdateMessage fails: return the error.
SlackLoopExit(r) ==
    LET rr == run[r]
    IN  /\ rr.pc \in SlackPhases
        /\ rr.op.at = "call"
        /\ ~InLoop(rr.op.i, slackRetryCount)
        /\ run' = [run EXCEPT ![r] = Continue(rr, FALSE, 0, SlackExhausted(rr.op))]
        /\ UNCHANGED << config, events, arrived, dispatched, handling,
                        ongoingConversations, splitVars, mu, cancelled >>

\* Faulty variant of RetryWake: the sleep never ends.
RetryWakeNever(r) ==
    /\ run[r].op.at = "sleep"
    /\ UNCHANGED vars

\* time.Sleep(retryDelay) returns and the loop goes to its next iteration.
RetryWake(r) ==
    /\ run[r].op.at = "sleep"
    /\ run' = [run EXCEPT ![r].op.at = "call", ![r].op.i = @ + 1]
    /\ UNCHANGED << config, events, arrived, dispatched, handling,
                    ongoingConversations, splitVars, mu, cancelled >>

\* Faulty variant of Lock: the run goes on without taking the mutex.
LockSkipped(r) ==
    LET rr == run[r]
    IN  /\ rr.pc \in {"register", "unregister"}
        /\ rr.mapStep = "lock"
        /\ run' = [run EXCEPT ![r].mapStep = "access"]
        /\ UNCHANGED << config, events, arrived, dispatched, handling,
                        ongoingConversations, splitVars, mu, cancelled >>

\* bot.go:81 and bot.go:135: b.mu.Lock() returns once the mutex is free.
Lock(r) ==
    LET rr == run[r]
    IN  /\ rr.pc \in {"register", "unregister"}
        /\ rr.mapStep = "lock"
        /\ mu = 0
        /\ mu' = r
        /\ run' = [run EXCEPT ![r].mapStep = "access"]
        /\ UNCHANGED << config, events, arrived, dispatched, handling,
                        ongoingConversations, splitVars, cancelled >>

\* Faulty variant of Register: the write replaces the whole map.
RegisterAlone(r) ==
    LET rr == run[r]
        key == ConversationKey(rr.event)
    IN  /\ rr.pc = "register"
        /\ rr.mapStep = "access"
        /\ ongoingConversations' = [k \in {key} |-> rr.ts]
        /\ run' = [run EXCEPT ![r].mapStep = "unlock",
                              ![r].registered = @ + 1]
        /\ UNCHANGED << config, events, arrived, dispatched, handling,
                        splitVars, mu, cancelled >>

\* bot.go:82: b.ongoingConversations[conversationKey] = ts
Register(r) ==
    LET rr == run[r]
        key == ConversationKey(rr.event)
    IN  /\ rr.pc = "register"
        /\ rr.mapStep = "access"
        /\ ongoingConversations' =
              [k \in DOMAIN ongoingConversations \cup {key} |->
                  IF k = key THEN rr.ts ELSE ongoingConversations[k]]
        /\ run' = [run EXCEPT ![r].mapStep = "unlock",
                              ![r].registered = @ + 1]
        /\ UNCHANGED << config, events, arrived, dispatched, handling,
                        splitVars, mu, cancelled >>

\* bot.go:136: delete(b.ongoingConversations, conversationKey)
Unregister(r) ==
    LET rr == run[r]
        key == ConversationKey(rr.event)
    IN  /\ rr.pc = "unregister"
        /\ rr.mapStep = "access"
        /\ ongoingConversations' =
              [k \in DOMAIN ongoingConversations \ {key} |->
                  ongoingConversations[k]]
        /\ run' = [run EXCEPT ![r].mapStep = "unlock",
                              ![r].unregistered = @ + 1]
        /\ UNCHANGED << config, events, arrived, dispatched, handling,
                        splitVars, mu, cancelled >>

\* bot.go:83-90 and bot.go:137-139: b.mu.Unlock(), then the backend request
\* is started, or the run returns nil.
Unlock(r) ==
    LET rr == run[r]
    IN  /\ rr.pc \in {"register", "unregister"}
        /\ rr.mapStep = "unlock"
        /\ mu' = 0
        /\ run' = [run EXCEPT ![r] =
              IF rr.pc = "register"
              THEN [rr EXCEPT !.pc = "backend", !.mapStep = "lock",
                              !.op = [NewOp("backend", <<>>, 0, rr.event.Text)
                                         EXCEPT !.user = rr.event.User]]
              ELSE [rr EXCEPT !.pc = "returned", !.mapStep = "lock",
                              !.result = Nil]]
        /\ UNCHANGED << config, events, arrived, dispatched, handling,
                        ongoingConversations, splitVars, cancelled >>


(* -------------------------- the backend client ------------------------- *)

\* What one HTTP attempt can come to: c.httpClient.Do fails, the status is
\* not 200, the body cannot be read, the body does not decode, or it decodes.
Outcomes == {"transport", "status", "read", "decode", "ok"}

\* Faulty variant of Retried: every failed attempt is retried.
RetriedAll == {"transport", "status", "read", "decode"}

\* bot.go:259 and bot.go:276: the failures after which the loop goes on.
Retried == {"transport", "status"}

\* The error SendChatRequest returns when the attempt with this outcome ends it.
BackendError(outcome) ==
    CASE outcome = "transport" ->
           Wrap("HTTP request to chat backend failed after retries",
                <<"transport">>)
      [] outcome = "status" ->
           Wrap("chat backend returned error status after retries",
                <<"chat backend returned non-OK status">>)
      [] outcome = "read" ->
           Wrap("failed to read response body", <<"read">>)
      [] outcome = "decode" ->
           Wrap("failed to unmarshal response", <<"unmarshal">>)

\* bot.go:242-248: the request cannot be built; no HTTP call is made.
BackendBadRequest(r) ==
    LET rr == run[r]
    IN  /\ rr.pc = "backend"
        /\ rr.op.at = "call"
        /\ InLoop(rr.op.i, backendRetryCount)
        /\ ~baseURLValid
        /\ run' = [run EXCEPT ![r] =
              Continue(rr, FALSE, <<>>,
                       Wrap("failed to create HTTP request", <<"url">>))]
        /\ UNCHANGED << config, events, arrived, dispatched, handling,
                        ongoingConversations, splitVars, mu, cancelled >>

\* Faulty variant of BackendCall: the status of the response is not checked,
\* a body that decodes is taken as the answer whatever the status.
BackendCallAnyStatus(r, outcome, answer) ==
    LET rr == run[r]
        called == [rr EXCEPT !.op.calls = @ + 1, !.op.last = outcome]
    IN  /\ rr.pc = "backend"
        /\ rr.op.at = "call"
        /\ InLoop(rr.op.i, backendRetryCount)
        /\ baseURLValid
        /\ cancelled => outcome = "transport"
        /\ run' = [run EXCEPT ![r] =
              IF outcome \in {"ok", "status"}
              THEN Continue(called, TRUE, answer, Nil)
              ELSE IF outcome \in Retried
                      /\ SleepsAfter(rr.op.i, backendRetryCount)
              THEN [called EXCEPT !.op.at = "sleep", !.op.delays = @ + 1]
              ELSE Continue(called, FALSE, <<>>, BackendError(outcome))]
        /\ UNCHANGED << config, events, arrived, dispatched, handling,
                        ongoingConversations, splitVars, mu, cancelled >>

\* bot.go:253-304: one HTTP POST of the retry loop of SendChatRequest, with
\* its outcome and, when the body decodes, the full_response it carries.
\* c.httpClient.Do fails when the context of the request is cancelled.
BackendCall(r, outcome, answer) ==
    LET rr == run[r]
        called == [rr EXCEPT !.op.calls = @ + 1, !.op.last = outcome]
    IN  /\ rr.pc = "backend"
        /\ rr.op.at = "call"
        /\ InLoop(rr.op.i, backendRetryCount)
        /\ baseURLValid
        /\ cancelled => outcome = "transport"
        /\ run' = [run EXCEPT ![r] =
              IF outcome = "ok"
              THEN Continue(called, TRUE, answer, Nil)
              ELSE IF outcome \in Retried
                      /\ SleepsAfter(rr.op.i, backendRetryCount)
              THEN [called EXCEPT !.op.at = "sleep", !.op.delays = @ + 1]
              ELSE Continue(called, FALSE, <<>>, BackendError(outcome))]
        /\ UNCHANGED << config, events, arrived, dispatched, handling,
                        ongoingConversations, splitVars, mu, cancelled >>

\* bot.go:307: the loop condition fails.
BackendLoopExit(r) ==
    LET rr == run[r]
    IN  /\ rr.pc = "backend"
        /\ rr.op.at = "call"
        /\ ~InLoop(rr.op.i, backendRetryCount)
        /\ run' = [run EXCEPT ![r] =
              Continue(rr, FALSE, <<>>,
                       <<"failed to send chat request after retries">>)]
        /\ UNCHANGED << config, events, arrived, dispatched, handling,
                        ongoingConversations, splitVars, mu, cancelled >>

\* Faulty variant of PaceWake: the loop skips the next sentence.
PaceWakeSkips(r) ==
    LET rr == run[r]
    IN  /\ rr.pc = "pace"
        /\ run' = [run EXCEPT ![r] =
              EnterSegment([rr EXCEPT !.paces = @ + 1], rr.idx + 2)]
        /\ UNCHANGED << config, events, arrived, dispatched, handling,
                        ongoingConversations, splitVars, mu, cancelled >>

\* bot.go:120: time.Sleep(500 * time.Millisecond) returns.
PaceWake(r) ==
    LET rr == run[r]
    IN  /\ rr.pc = "pace"
        /\ run' = [run EXCEPT ![r] =
              EnterSegment([rr EXCEPT !.paces = @ + 1], rr.idx + 1)]
        /\ UNCHANGED << config, events, arrived, dispatched, handling,
                        ongoingConversations, splitVars, mu, cancelled >>

(* ---------------------------- the dispatcher --------------------------- *)

\* An app_mention event arrives on socketClient.Events; socketClient.RunContext
\* delivers none once its context is cancelled.
Arrive(e) ==
    /\ arrived < MaxEvents
    /\ ~cancelled
    /\ arrived' = arrived + 1
    /\ events' = Append(events, e)
    /\ UNCHANGED << config, dispatched, handling, ongoingConversations,
                    run, splitVars, mu, cancelled >>

\* Faulty variant of Enter: the run starts without looking at the client.
EnterUnchecked(e) ==
    [IdleRun EXCEPT !.pc = "send", !.event = e,
                    !.op = NewOp("send", e.Channel, 0, Thinking)]

\* bot.go:51-72: the activation of HandleAppMention for an event, at its
\* first call out, or returned at once when the bot has no Slack client.
Enter(e) ==
    IF slackClientSet
    THEN [IdleRun EXCEPT !.pc = "send", !.event = e,
                         !.op = NewOp("send", e.Channel, 0, Thinking)]
    ELSE [IdleRun EXCEPT !.pc = "returned", !.event = e,
                         !.result = <<"slack client not initialized">>]

\* Faulty variant of AtLoopHead: an event is read while another is handled.
AtLoopHeadAlways == TRUE

\* Whether listenForEvents is at the head of its loop, free to read an event.
AtLoopHead == handling = 0

\* client.go:89-166 and bot.go:51-72: listenForEvents reads the next event
\* and calls handleEventsAPIEvent, which calls HandleAppMention, on its own
\* goroutine.
Dispatch ==
    /\ AtLoopHead
    /\ events # <<>>
    /\ events' = Tail(events)
    /\ dispatched' = dispatched + 1
    /\ handling' = dispatched + 1
    /\ run' = [run EXCEPT ![dispatched + 1] = Enter(Head(events))]
    /\ UNCHANGED << config, arrived, ongoingConversations, splitVars, mu, cancelled >>

\* Faulty variant of ReportError: the error is written over the placeholder.
ReportErrorAsEdit(r) ==
    LET rr == run[r]
    IN  /\ rr.pc = "returned"
        /\ rr.result # Nil
        /\ run' = [run EXCEPT ![r].pc = "report",
                              ![r].op = NewOp("update", rr.event.Channel,
                                              rr.ts, OopsText(rr.result))]
        /\ UNCHANGED << config, events, arrived, dispatched, handling,
                        ongoingConversations, splitVars, mu, cancelled >>

\* client.go:166-171: HandleAppMention returned an error, which is reported.
ReportError(r) ==
    LET rr == run[r]
    IN  /\ rr.pc = "returned"
        /\ rr.result # Nil
        /\ run' = [run EXCEPT ![r].pc = "report",
                              ![r].op = NewOp("send", rr.event.Channel, 0,
                                              OopsText(rr.result))]
        /\ UNCHANGED << config, events, arrived, dispatched, handling,
                        ongoingConversations, splitVars, mu, cancelled >>

\* client.go:172-174 and client.go:123-133: handleEventsAPIEvent returns and
\* listenForEvents goes back to the head of its loop.
EndEvent(r) ==
    LET rr == run[r]
    IN  /\ \/ rr.pc = "returned" /\ rr.result = Nil
           \/ rr.pc = "reported"
        /\ handling' = 0
        /\ run' = [run EXCEPT ![r] = [IdleRun EXCEPT !.pc = "done"]]
        /\ UNCHANGED << config, events, arrived, dispatched,
                        ongoingConversations, splitVars, mu, cancelled >>

\* main.go:23: the context of signal.NotifyContext is cancelled by an
\* interrupt.  Every run derives its context from it; cancelledIn records
\* where the run stood.
Cancel ==
    /\ ~cancelled
    /\ cancelled' = TRUE
    /\ run' = [r \in Runs |->
          IF run[r].pc \in {"idle", "done"} THEN run[r]
          ELSE [run[r] EXCEPT !.cancelledIn = run[r].pc]]
    /\ UNCHANGED << config, events, arrived, dispatched, handling,
                    ongoingConversations, splitVars, mu >>

Next ==
    \/ \E e \in Events : Arrive(e)
    \/ Dispatch
    \/ \E r \in Runs :
          \/ \E ok \in BOOLEAN : SlackCall(r, ok)
          \/ SlackLoopExit(r)
          \/ RetryWake(r)
          \/ Lock(r)
          \/ Register(r)
          \/ Unlock(r)
          \/ BackendBadRequest(r)
          \/ \E outcome \in Outcomes, answer \in Answers :
                /\ outcome # "ok" => answer = <<>>
                /\ BackendCall(r, outcome, answer)
          \/ BackendLoopExit(r)
          \/ PaceWake(r)
          \/ Unregister(r)
          \/ ReportError(r)
          \/ EndEvent(r)

Spec == Init /\ [][Next]_vars

(* ------------------------- with the interrupt -------------------------- *)

\* The bot after it has handled all mentions but the last without leaving a
\* key behind; the last mention is still to arrive.
InitCancel ==
    /\ slackRetryCount \in RetryCounts
    /\ backendRetryCount \in RetryCounts
    /\ baseURLValid \in BOOLEAN
    /\ slackClientSet = TRUE
    /\ events = <<>>
    /\ arrived = MaxEvents - 1
    /\ dispatched = MaxEvents - 1
    /\ handling = 0
    /\ ongoingConversations = [k \in {} |-> 0]
    /\ run = [r \in Runs |->
          IF r < MaxEvents THEN [IdleRun EXCEPT !.pc = "done"] ELSE IdleRun]
    /\ mu = 0
    /\ cancelled = FALSE
    /\ input = <<>>
    /\ output = <<>>
    /\ applied = FALSE

NextCancel ==
    \/ Cancel
    \/ Next

SpecCancel == InitCancel /\ [][NextCancel]_vars

\* The bot of InitCancel with no interrupt: the one mention still to arrive
\* is handled from its arrival to the return of handleEventsAPIEvent.
SpecOneMention == InitCancel /\ [][Next]_vars

(* ----------------------------- with progress --------------------------- *)

\* A step of run r between the call of HandleAppMention and the return of
\* the last call made for it.
RunStep(r) ==
    \/ \E ok \in BOOLEAN : SlackCall(r, ok)
    \/ SlackLoopExit(r)
    \/ RetryWake(r)
    \/ Lock(r)
    \/ Register(r)
    \/ Unlock(r)
    \/ BackendBadRequest(r)
    \/ \E outcome \in Outcomes, answer \in Answers :
          /\ outcome # "ok" => answer = <<>>
          /\ BackendCall(r, outcome, answer)
    \/ BackendLoopExit(r)
    \/ PaceWake(r)
    \/ Unregister(r)

\* Every Slack and backend call returns, every time.Sleep ends and the
\* goroutine of the run is scheduled: a run that can take a step takes one.
Progress == \A r \in Runs : WF_vars(RunStep(r))

\* The bot of InitCancel handling its last mention, with progress.
SpecLive == InitCancel /\ [][Next]_vars /\ Progress

(* --------------------- from the mention to the query ------------------- *)

\* client.go:136-166: listenForEvents reads the next app_mention event and
\* handleEventsAPIEvent builds the models.SlackEvent from it and calls
\* HandleAppMention; input keeps the event as it arrived.
DispatchMention ==
    /\ AtLoopHead
    /\ events # <<>>
    /\ events' = Tail(events)
    /\ dispatched' = dispatched + 1
    /\ handling' = dispatched + 1
    /\ run' = [run EXCEPT ![dispatched + 1] = Enter(SlackEventOf(Head(events)))]
    /\ input' = Head(events)
    /\ UNCHANGED << config, arrived, ongoingConversations, output, applied,
                    mu, cancelled >>

NextQuery ==
    \/ \E m \in Mentions : Arrive(m)
    \/ DispatchMention
    \/ \E r \in Runs :
          \/ \E ok \in BOOLEAN : SlackCall(r, ok)
          \/ SlackLoopExit(r)
          \/ RetryWake(r)
          \/ Lock(r)
          \/ Register(r)
          \/ Unlock(r)
          \/ BackendBadRequest(r)
          \/ \E outcome \in Outcomes, answer \in Answers :
                /\ outcome # "ok" => answer = <<>>
                /\ BackendCall(r, outcome, answer)
          \/ BackendLoopExit(r)
          \/ PaceWake(r)
          \/ Unregister(r)
          \/ ReportError(r)
          \/ EndEvent(r)

\* The bot of InitCancel: the last mention is still to arrive.
SpecQuery == InitCancel /\ [][NextQuery]_vars

(* ---------------------- the bot without its client --------------------- *)

\* The bot as NewChatRelayBot(nil, backendClient) leaves it (main.go:39),
\* before SetSlackClient.
InitNoClient ==
    /\ slackRetryCount \in RetryCounts
    /\ backendRetryCount \in RetryCounts
    /\ baseURLValid \in BOOLEAN
    /\ slackClientSet = FALSE
    /\ events = <<>>
    /\ arrived = 0
    /\ dispatched = 0
    /\ handling = 0
    /\ ongoingConversations = [k \in {} |-> 0]
    /\ run = [r \in Runs |-> IdleRun]
    /\ mu = 0
    /\ cancelled = FALSE
    /\ input = <<>>
    /\ output = <<>>
    /\ applied = FALSE

\* bot.go:43-49: what StartBot returns before it connects: an error when the
\* bot has no Slack client, otherwise nothing yet.
StartBotResult ==
    IF slackClientSet THEN Nil
    ELSE <<"slack client is not set for ChatRelayBot">>

\* bot.go:43-49: StartBot is called.
StartBot ==
    /\ ~applied
    /\ applied' = TRUE
    /\ output' = StartBotResult
    /\ UNCHANGED << config, events, arrived, dispatched, handling,
                    ongoingConversations, run, mu, cancelled, input >>

\* bot.go:51: a caller calls HandleAppMention with an event.
Invoke(e) ==
    /\ dispatched < MaxEvents
    /\ dispatched' = dispatched + 1
    /\ run' = [run EXCEPT ![dispatched + 1] = Enter(e)]
    /\ UNCHANGED << config, events, arrived, handling, ongoingConversations,
                    splitVars, mu, cancelled >>

\* The caller takes the error HandleAppMention returned.
TakeResult(r) ==
    /\ run[r].pc = "returned"
    /\ run' = [run EXCEPT ![r] = [IdleRun EXCEPT !.pc = "done"]]
    /\ UNCHANGED << config, events, arrived, dispatched, handling,
                    ongoingConversations, splitVars, mu, cancelled >>

NextNoClient ==
    \/ StartBot
    \/ \E e \in Events : Invoke(e)
    \/ \E r \in Runs : TakeResult(r)

SpecNoClient == InitNoClient /\ [][NextNoClient]_vars

(* ------------------------- concurrent callers -------------------------- *)

\* The mentions of one conversation: one channel, one user.
SameKeyEvents == { e \in Events : e.Channel = <<"C", "1">> }

\* HandleAppMention called by callers that do not wait for one another: a
\* call may start while another is between its statements, and b.mu orders
\* their accesses to the map.
NextOverlap ==
    \/ \E e \in SameKeyEvents : Invoke(e)
    \/ \E r \in Runs :
          \/ \E ok \in BOOLEAN : SlackCall(r, ok)
          \/ SlackLoopExit(r)
          \/ RetryWake(r)
          \/ Lock(r)
          \/ Register(r)
          \/ Unlock(r)
          \/ BackendBadRequest(r)
          \/ \E outcome \in Outcomes, answer \in Answers :
                /\ outcome # "ok" => answer = <<>>
                /\ BackendCall(r, outcome, answer)
          \/ BackendLoopExit(r)
          \/ PaceWake(r)
          \/ Unregister(r)
          \/ TakeResult(r)

SpecOverlap == Init /\ [][NextOverlap]_vars

(* ----------------------- the splitter, on its own ---------------------- *)

SplitInputs ==
    UNION { [1..n -> Alphabet] : n \in 0..MaxLen } \cup {HelloText}

InitSplit ==
    /\ slackRetryCount = 0
    /\ backendRetryCount = 0
    /\ baseURLValid = TRUE
    /\ slackClientSet = TRUE
    /\ events = <<>>
    /\ arrived = 0
    /\ dispatched = 0
    /\ handling = 0
    /\ ongoingConversations = [k \in {} |-> 0]
    /\ run = [r \in Runs |-> IdleRun]
    /\ mu = 0
    /\ cancelled = FALSE
    /\ input \in SplitInputs
    /\ output = <<>>
    /\ applied = FALSE

ApplySplit ==
    /\ ~applied
    /\ output' = splitIntoSentences(input)
    /\ applied' = TRUE
    /\ UNCHANGED << config, events, arrived, dispatched, handling,
                    ongoingConversations, run, mu, cancelled, input >>

NextSplit == ApplySplit

SpecSplit == InitSplit /\ [][NextSplit]_vars


(* ------------------------ the conversation key ------------------------- *)

\* models.SlackEvent.Channel and models.SlackEvent.User are strings the
\* payload of the event gives; nothing in the bot restricts them.
Ids == UNION { [1..n -> {"C", "-"}] : n \in 1..MaxIdLen }

KeyInputs == [Channel : Ids, User : Ids, Text : Queries]

InitKey ==
    /\ slackRetryCount = 0
    /\ backendRetryCount = 0
    /\ baseURLValid = TRUE
    /\ slackClientSet = TRUE
    /\ events = <<>>
    /\ arrived = 0
    /\ dispatched = 0
    /\ handling = 0
    /\ ongoingConversations = [k \in {} |-> 0]
    /\ run = [r \in Runs |-> IdleRun]
    /\ mu = 0
    /\ cancelled = FALSE
    /\ input \in KeyInputs \X KeyInputs
    /\ output = <<>>
    /\ applied = FALSE

\* bot.go:80: the key is computed for each of two events.
ApplyKey ==
    /\ ~applied
    /\ output' = << ConversationKey(input[1]), ConversationKey(input[2]) >>
    /\ applied' = TRUE
    /\ UNCHANGED << config, events, arrived, dispatched, handling,
                    ongoingConversations, run, mu, cancelled, input >>

NextKey == ApplyKey

SpecKey == InitKey /\ [][NextKey]_vars


(* ------------------------- loading the configuration ------------------- *)

RequiredKeys == {"SLACK_APP_TOKEN", "SLACK_BOT_TOKEN", "CHAT_BACKEND_URL"}

CountKeys == {"SLACK_API_RETRY_COUNT", "BACKEND_API_RETRY_COUNT"}

DurationKeys ==
    {"REQUEST_TIMEOUT", "SLACK_API_RETRY_DELAY", "BACKEND_API_RETRY_DELAY"}

ConfigKeys == RequiredKeys \cup CountKeys \cup DurationKeys

\* What os.LookupEnv gives for a variable: its value and whether it exists.
Unset == [exists |-> FALSE, value |-> <<>>]

Set(v) == [exists |-> TRUE, value |-> v]

\* The environments of the process: each required variable is unset, empty
\* or has a value; each optional one is unset, empty, well-formed or not.
Environments ==
    { [k \in ConfigKeys |->
          IF k \in RequiredKeys THEN r[k]
          ELSE IF k \in CountKeys THEN c[k] ELSE d[k]] :
         r \in [RequiredKeys -> {Unset, Set(<<>>), Set(<<"x">>)}],
         c \in [CountKeys -> {Unset, Set(<<>>), Set(<<"2">>),
                              Set(<<"-", "1">>), Set(<<"1", "x">>)}],
         d \in [DurationKeys -> {Unset, Set(<<>>), Set(<<"2", "s">>),
                                 Set(<<"2">>)}] }

\* The .env files: none, one with the three required variables, one with an
\* empty SLACK_APP_TOKEN and a retry count.
NoDotEnv == [k \in ConfigKeys |-> Unset]

DotEnvFiles ==
    { NoDotEnv,
      [k \in ConfigKeys |-> IF k \in RequiredKeys THEN Set(<<"y">>) ELSE Unset],
      [k \in ConfigKeys |->
          IF k = "SLACK_APP_TOKEN" THEN Set(<<>>)
          ELSE IF k = "SLACK_API_RETRY_COUNT" THEN Set(<<"2">>)
          ELSE Unset] }

\* godotenv.Load(): a variable of the file is set unless the environment
\* has it already.
Load(env, file) ==
    [k \in ConfigKeys |-> IF env[k].exists THEN env[k] ELSE file[k]]

Digits == <<"0", "1", "2", "3", "4", "5", "6", "7", "8", "9">>

IsDigit(c) == \E d \in 1..Len(Digits) : Digits[d] = c

DigitValue(c) == (CHOOSE d \in 1..Len(Digits) : Digits[d] = c) - 1

AllDigits(s) == s # <<>> /\ \A p \in 1..Len(s) : IsDigit(s[p])

RECURSIVE Number(_)
Number(s) ==
    IF s = <<>> THEN 0
    ELSE 10 * Number(SubSeq(s, 1, Len(s) - 1)) + DigitValue(s[Len(s)])

\* strconv.Atoi: an optional sign and decimal digits.
Atoi(s) ==
    IF AllDigits(s) THEN [ok |-> TRUE, value |-> Number(s)]
    ELSE IF s # <<>> /\ s[1] \in {"+", "-"} /\ AllDigits(Tail(s))
    THEN [ok |-> TRUE,
          value |-> IF s[1] = "-" THEN 0 - Number(Tail(s)) ELSE Number(Tail(s))]
    ELSE [ok |-> FALSE, value |-> 0]

\* The unit suffixes of time.ParseDuration used here, in milliseconds.
UnitMillis(u) ==
    CASE u = "s" -> 1000
      [] u = "m" -> 60000
      [] u = "h" -> 3600000

\* time.ParseDuration on a whole number with one unit suffix, in
\* milliseconds: digits without a unit are rejected, except "0".
ParseDuration(s) ==
    IF s = <<"0">> THEN [ok |-> TRUE, value |-> 0]
    ELSE IF /\ Len(s) >= 2
            /\ s[Len(s)] \in {"s", "m", "h"}
            /\ AllDigits(SubSeq(s, 1, Len(s) - 1))
    THEN [ok |-> TRUE,
          value |-> Number(SubSeq(s, 1, Len(s) - 1)) * UnitMillis(s[Len(s)])]
    ELSE [ok |-> FALSE, value |-> 0]

\* config.go:28-33
getEnv(env, key, defaultValue) ==
    IF env[key].exists THEN env[key].value ELSE defaultValue

\* fmt.Errorf("required environment variable %s not set", key)
RequiredError(key) ==
    CASE key = "SLACK_APP_TOKEN" ->
           <<"required environment variable SLACK_APP_TOKEN not set">>
      [] key = "SLACK_BOT_TOKEN" ->
           <<"required environment variable SLACK_BOT_TOKEN not set">>
      [] key = "CHAT_BACKEND_URL" ->
           <<"required environment variable CHAT_BACKEND_URL not set">>

\* Faulty variant of getRequiredEnv: an empty value is accepted.
getRequiredEnvAcceptsEmpty(env, key) ==
    IF env[key].exists
    THEN [value |-> env[key].value, err |-> Nil]
    ELSE [value |-> <<>>,
          err |-> RequiredError(key)]

\* config.go:36-41
getRequiredEnv(env, key) ==
    IF env[key].exists /\ env[key].value # <<>>
    THEN [value |-> env[key].value, err |-> Nil]
    ELSE [value |-> <<>>,
          err |-> RequiredError(key)]

\* Faulty variant of CountOf: a malformed count is taken as 0.
CountOfZeroOnError(env, key) ==
    LET retryStr == getEnv(env, key, <<>>)
    IN  IF retryStr # <<>> THEN Atoi(retryStr).value ELSE 3

\* config.go:80-89 and config.go:102-111: a retry count, 3 by default.
CountOf(env, key) ==
    LET retryStr == getEnv(env, key, <<>>)
    IN  IF retryStr # <<>> /\ Atoi(retryStr).ok
        THEN Atoi(retryStr).value
        ELSE 3

\* config.go:69-78, config.go:91-100 and config.go:113-122: a duration in
\* milliseconds, with its default.
DurationOf(env, key, defaultValue) ==
    LET str == getEnv(env, key, <<>>)
    IN  IF str # <<>> /\ ParseDuration(str).ok
        THEN ParseDuration(str).value
        ELSE defaultValue

\* config.go:18-126: LoadConfig; cfg is <<>> for the nil pointer.
LoadConfig(processEnv, file) ==
    LET env == Load(processEnv, file)
        app == getRequiredEnv(env, "SLACK_APP_TOKEN")
        bot == getRequiredEnv(env, "SLACK_BOT_TOKEN")
        url == getRequiredEnv(env, "CHAT_BACKEND_URL")
    IN  IF app.err # Nil THEN [cfg |-> <<>>, err |-> app.err]
        ELSE IF bot.err # Nil THEN [cfg |-> <<>>, err |-> bot.err]
        ELSE IF url.err # Nil THEN [cfg |-> <<>>, err |-> url.err]
        ELSE [cfg |->
                << [ SlackAppToken |-> app.value,
                     SlackBotToken |-> bot.value,
                     ChatBackendURL |-> url.value,
                     RequestTimeout |->
                        DurationOf(env, "REQUEST_TIMEOUT", 30000),
                     SlackAPIRetryCount |->
                        CountOf(env, "SLACK_API_RETRY_COUNT"),
                     SlackAPIRetryDelay |->
                        DurationOf(env, "SLACK_API_RETRY_DELAY", 1000),
                     BackendAPIRetryCount |->
                        CountOf(env, "BACKEND_API_RETRY_COUNT"),
                     BackendAPIRetryDelay |->
                        DurationOf(env, "BACKEND_API_RETRY_DELAY", 1000) ] >>,
              err |-> Nil]

InitConfig ==
    /\ slackRetryCount = 0
    /\ backendRetryCount = 0
    /\ baseURLValid = TRUE
    /\ slackClientSet = FALSE
    /\ events = <<>>
    /\ arrived = 0
    /\ dispatched = 0
    /\ handling = 0
    /\ ongoingConversations = [k \in {} |-> 0]
    /\ run = [r \in Runs |-> IdleRun]
    /\ mu = 0
    /\ cancelled = FALSE
    /\ input \in [env : Environments, file : DotEnvFiles]
    /\ output = <<>>
    /\ applied = FALSE

\* main calls LoadConfig.
ApplyLoadConfig ==
    /\ ~applied
    /\ output' = LoadConfig(input.env, input.file)
    /\ applied' = TRUE
    /\ UNCHANGED << config, events, arrived, dispatched, handling,
                    ongoingConversations, run, mu, cancelled, input >>

NextConfig == ApplyLoadConfig

SpecConfig == InitConfig /\ [][NextConfig]_vars


(* ------------------------------ properties ----------------------------- *)

\* HandleAppMention has returned and its activation is still on the stack of
\* handleEventsAPIEvent.
Returned(rr) == rr.pc \in {"returned", "report", "reported"}

\* The positions of the history whose entries are of one phase.
Entries(rr, phase) == { k \in 1..Len(rr.log) : rr.log[k].phase = phase }

\* The positions of the UpdateMessage calls the run has made.
Updates(rr) == { k \in 1..Len(rr.log) : rr.log[k].kind = "update" }

BackendSucceeded(rr) == \E k \in Entries(rr, "backend") : rr.log[k].ok

BackendFailed(rr) == \E k \in Entries(rr, "backend") : ~rr.log[k].ok

\* The retry count the configuration gives an operation of this kind.
RetryCountOf(kind) ==
    IF kind = "backend" THEN backendRetryCount ELSE slackRetryCount

\* C1: every run that registered its conversation key has removed it exactly
\* once when it returns, however it ends; once all mentions are handled the
\* tracker holds no key.
C1_UnregisteredOnce ==
    /\ \A r \in Runs :
          Returned(run[r]) /\ run[r].registered > 0 =>
             /\ run[r].unregistered = 1
             /\ ConversationKey(run[r].event) \notin DOMAIN ongoingConversations
    /\ (arrived = MaxEvents /\ \A r \in Runs : run[r].pc = "done") =>
          DOMAIN ongoingConversations = {}

\* C2: while a run is suspended in a retry delay or in a pacing delay and the
\* next pending mention is for another conversation, that mention can be
\* dispatched: its run starts without waiting for the first to finish.
C2_IndependentRuns ==
    \A r \in Runs :
       /\ run[r].op.at = "sleep" \/ run[r].pc = "pace"
       /\ events # <<>>
       /\ ConversationKey(Head(events)) # ConversationKey(run[r].event)
       => ENABLED Dispatch

\* C6: the splitter keeps the punctuation mark of each cut at the end of the
\* preceding segment; "Hello there. How are you? Fine!" gives
\* ["Hello there.", "How are you?", "Fine!"].
C6_KeepsPunctuation ==
    applied =>
       /\ input = HelloText => output = << HelloThere, HowAreYou, Fine >>
       /\ \A k \in 1..(Len(output) - 1) :
             output[k][Len(output[k])] \in Punct


\* The history entry of the backend request of a run that has made it.
BackendEntry(rr) == rr.log[CHOOSE k \in Entries(rr, "backend") : TRUE]

C4_BackendFailureReported ==
    \A r \in Runs :
       BackendFailed(run[r]) =>
          /\ Entries(run[r], "segUpdate") = {}
          /\ Entries(run[r], "finalUpdate") = {}
          /\ run[r].pc \notin {"segUpdate", "pace", "finalUpdate", "unregister"}
          /\ Cardinality(Updates(run[r])) <= 1
          /\ BackendEntry(run[r]).err # Nil
          /\ \A k \in Updates(run[r]) :
                /\ run[r].log[k].phase = "errUpdate"
                /\ run[r].log[k].channel = run[r].event.Channel
                /\ run[r].log[k].ts = run[r].log[1].value[1]
                /\ run[r].log[k].text =
                      <<"Apologies, I encountered an error: ">>
                         \o BackendEntry(run[r]).err
          /\ Returned(run[r]) =>
                /\ Cardinality(Updates(run[r])) = 1
                /\ run[r].result # Nil
                /\ Unwrap(run[r].result) = BackendEntry(run[r]).err

\* C4 witness: a run has returned after a failed backend request and a failed
\* error update.
C4_Witness ==
    \E r \in Runs :
       /\ Returned(run[r])
       /\ BackendFailed(run[r])
       /\ \E k \in Updates(run[r]) : ~run[r].log[k].ok

RECURSIVE Joined(_, _)
Joined(s, i) ==
    IF i = 1 THEN s[1] ELSE Joined(s, i - 1) \o <<".", ".", ".">> \o s[i]

\* How many history entries of the phase lie at or before position k.
Ordinal(rr, phase, k) == Cardinality({ j \in Entries(rr, phase) : j <= k })

\* The run is past its streaming loop.
PastLoop(rr) == rr.pc \in {"finalUpdate", "unregister"} \/ Returned(rr)

\* C7: for the segments s1..sn the splitter returns for the answer, the run
\* makes exactly n intermediate updates, and the text of the i-th is
\* s1 "..." s2 "..." ... si, followed by one more "..." exactly when i < n.
C7_IntermediateTexts ==
    \A r \in Runs :
       BackendSucceeded(run[r]) =>
          LET s == splitIntoSentences(BackendEntry(run[r]).value[1])
              n == Len(s)
              seg == Entries(run[r], "segUpdate")
          IN  /\ Cardinality(seg) <= n
              /\ PastLoop(run[r]) => Cardinality(seg) = n
              /\ \A k \in seg :
                    LET i == Ordinal(run[r], "segUpdate", k)
                    IN  run[r].log[k].text =
                           Joined(s, i)
                              \o (IF i < n THEN <<".", ".", ".">> ELSE <<>>)

\* C7 witness: a run has left the streaming loop after two intermediate
\* updates for an answer of two segments.
C7_Witness ==
    \E r \in Runs :
       /\ run[r].pc = "finalUpdate"
       /\ Len(run[r].sentences) = 2
       /\ Cardinality(Entries(run[r], "segUpdate")) = 2

\* C8: after a backend success the run makes exactly one final update, after
\* all intermediate updates; its text is the backend's answer, unmodified,
\* followed by the footer, and no update of the run comes after it.
C8_FinalUpdate ==
    \A r \in Runs :
       BackendSucceeded(run[r]) =>
          LET answer == BackendEntry(run[r]).value[1]
              final == Entries(run[r], "finalUpdate")
          IN  /\ Cardinality(final) <= 1
              /\ Returned(run[r]) => Cardinality(final) = 1
              /\ final # {} => run[r].pc \notin SlackPhases \ {"report"}
              /\ \A k \in final :
                    /\ run[r].log[k].kind = "update"
                    /\ run[r].log[k].text =
                          answer \o <<"\n\n_Powered by ChatRelay_">>
                    /\ run[r].log[k].ts = run[r].log[1].value[1]
                    /\ \A j \in Updates(run[r]) : j <= k
                    /\ Cardinality(Entries(run[r], "segUpdate")) =
                          Len(splitIntoSentences(answer))

\* C8 witness: a run has returned after its final update for the answer with
\* a leading blank.
C8_Witness ==
    \E r \in Runs :
       /\ Returned(run[r])
       /\ run[r].fullResponse = <<" ", "a">>
       /\ Entries(run[r], "finalUpdate") # {}

\* C9: after an intermediate update has failed the run goes on: it makes the
\* remaining segment updates, in order, and then the final update.
C9_FailedUpdateDoesNotAbort ==
    \A r \in Runs :
       (\E k \in Entries(run[r], "segUpdate") : ~run[r].log[k].ok) =>
          /\ run[r].pc \in {"pace", "segUpdate", "finalUpdate", "unregister"}
                \/ Returned(run[r])
          /\ \A k \in Entries(run[r], "segUpdate") :
                LET upTo == Joined(run[r].sentences,
                                   Ordinal(run[r], "segUpdate", k))
                IN  /\ Len(upTo) <= Len(run[r].log[k].text)
                    /\ SubStr(run[r].log[k].text, 1, Len(upTo)) = upTo
          /\ Returned(run[r]) =>
                /\ Cardinality(Entries(run[r], "segUpdate")) =
                      Len(run[r].sentences)
                /\ \E f \in Entries(run[r], "finalUpdate") :
                      \A k \in Entries(run[r], "segUpdate") : k < f

\* C9 witness: a run has returned after two intermediate updates, the first
\* of which failed, and a final update.
C9_Witness ==
    \E r \in Runs :
       /\ Returned(run[r])
       /\ Cardinality(Entries(run[r], "segUpdate")) = 2
       /\ \E k \in Entries(run[r], "segUpdate") :
             /\ ~run[r].log[k].ok
             /\ Ordinal(run[r], "segUpdate", k) = 1
       /\ Entries(run[r], "finalUpdate") # {}

\* C10: once the backend has answered, the run returns an error exactly when
\* its final update failed; the intermediate updates do not count.
C10_ResultFollowsFinalUpdate ==
    \A r \in Runs :
       BackendSucceeded(run[r]) /\ Returned(run[r]) =>
          /\ Entries(run[r], "finalUpdate") # {}
          /\ run[r].result # Nil <=>
                \E k \in Entries(run[r], "finalUpdate") : ~run[r].log[k].ok

\* C10 witness: a run has returned without error although one of its
\* intermediate updates failed.
C10_Witness ==
    \E r \in Runs :
       /\ Returned(run[r])
       /\ BackendSucceeded(run[r])
       /\ run[r].result = Nil
       /\ \E k \in Entries(run[r], "segUpdate") : ~run[r].log[k].ok

\* Every Slack call the run has made so far succeeded on its first attempt.
SlackAtOnce(rr) ==
    \A k \in 1..Len(rr.log) :
       rr.log[k].kind # "backend" => rr.log[k].ok /\ rr.log[k].calls = 1

\* C11: no backend call is made before the placeholder send has returned and
\* no update before the backend has answered; a run whose Slack calls all
\* succeed at once and whose backend request succeeds on attempt k, with an
\* answer of n segments, has made, in this order, one send of "Thinking...",
\* k backend calls, n intermediate updates and one final update, and nothing
\* else.
C11_CallOrder ==
    \A r \in Runs :
       LET rr == run[r]
           L == rr.log
       IN  /\ rr.op.kind = "backend" \/ Entries(rr, "backend") # {} =>
                 /\ Len(L) >= 1
                 /\ L[1].phase = "send" /\ L[1].kind = "send" /\ L[1].ok
                 /\ L[1].text = <<"Thinking...">>
                 /\ Entries(rr, "backend") \subseteq {2}
           /\ rr.op.kind = "update" \/ Updates(rr) # {} =>
                 /\ Entries(rr, "backend") = {2}
                 /\ \A k \in Updates(rr) : k > 2
           /\ Returned(rr) /\ BackendSucceeded(rr) /\ SlackAtOnce(rr) =>
                 LET n == Len(splitIntoSentences(L[2].value[1]))
                 IN  /\ Len(L) = n + 3
                     /\ L[1].phase = "send" /\ L[1].calls = 1
                     /\ L[2].phase = "backend"
                     /\ L[2].calls \in 1..(backendRetryCount + 1)
                     /\ \A i \in 1..n :
                           /\ L[2 + i].phase = "segUpdate"
                           /\ L[2 + i].kind = "update"
                           /\ L[2 + i].calls = 1
                     /\ L[n + 3].phase = "finalUpdate"
                     /\ L[n + 3].kind = "update"
                     /\ L[n + 3].calls = 1

\* C11 witness: a run has returned after one send, a backend request that
\* succeeded on its second attempt, two intermediate updates and the final
\* update, every Slack call succeeding at once.
C11_Witness ==
    \E r \in Runs :
       /\ Returned(run[r])
       /\ BackendSucceeded(run[r])
       /\ SlackAtOnce(run[r])
       /\ run[r].log[2].calls = 2
       /\ Len(run[r].sentences) = 2
       /\ Len(run[r].log) = 5

\* The context was cancelled while HandleAppMention was running.
CancelledMidRun(rr) ==
    rr.cancelledIn \in {"send", "register", "backend", "errUpdate",
                        "segUpdate", "pace", "finalUpdate", "unregister"}

\* C12: a run whose context was cancelled while it was running starts no
\* retry delay and no pacing delay from then on, and goes on to no further
\* segment of the answer.
C12_AbortsOnCancel ==
    [][ \A r \in Runs :
          CancelledMidRun(run[r]) /\ ~Returned(run[r]) =>
             /\ ~(run[r].op.at # "sleep" /\ run'[r].op.at = "sleep")
             /\ ~(run[r].pc # "pace" /\ run'[r].pc = "pace")
             /\ ~(run'[r].pc = "segUpdate" /\ run'[r].idx > run[r].idx) ]_vars

\* C13: when the context is cancelled after a run has written its key to the
\* tracker and before it returns, the key is not in the tracker once the run
\* has returned.
C13_UnregisteredOnCancel ==
    \A r \in Runs :
       /\ Returned(run[r])
       /\ run[r].registered > 0
       /\ run[r].cancelledIn \in {"backend", "errUpdate", "segUpdate", "pace",
                                  "finalUpdate", "unregister"}
       => ConversationKey(run[r].event) \notin DOMAIN ongoingConversations

\* The error the underlying call of a failed attempt returned.
AttemptError(last) ==
    CASE last = "slack"     -> <<"slack api error">>
      [] last = "transport" -> <<"transport">>
      [] last = "status"    -> <<"chat backend returned non-OK status">>

\* C14: the error a retry-wrapped operation returns after all its attempts
\* have failed wraps the error of its last attempt; the wrapped cause is
\* never nil.
C14_WrapsLastFailure ==
    \A r \in Runs : \A k \in 1..Len(run[r].log) :
       LET e == run[r].log[k]
           n == RetryCountOf(e.kind)
       IN  /\ ~e.ok
           /\ n >= 0
           /\ e.calls = n + 1
           /\ e.last \in {"slack", "transport", "status"}
           => /\ Unwrap(e.err) # Nil
              /\ Unwrap(e.err) = AttemptError(e.last)

\* The placeholder send of the run has returned an error.
SendFailed(rr) ==
    Len(rr.log) >= 1 /\ rr.log[1].phase = "send" /\ ~rr.log[1].ok

\* C15: when the placeholder send fails after its retries the run returns
\* at once with an error that wraps the send error: it writes nothing to
\* the tracker, makes no backend call and issues no update.
C15_SendFailureEndsRun ==
    \A r \in Runs :
       SendFailed(run[r]) =>
          /\ Returned(run[r])
          /\ run[r].result # Nil
          /\ run[r].result =
                <<"failed to send initial message">> \o run[r].log[1].err
          /\ run[r].registered = 0
          /\ run[r].mapStep = "lock"
          /\ mu # r
          /\ \A k \in DOMAIN ongoingConversations :
                ongoingConversations[k] # r
          /\ Entries(run[r], "backend") = {}
          /\ Updates(run[r]) = {}
          /\ run[r].op.kind \notin {"backend", "update"}

\* C15 witness: a run has returned after its placeholder send failed on both
\* of its two attempts.
C15_Witness ==
    \E r \in Runs :
       /\ SendFailed(run[r])
       /\ run[r].log[1].calls = 2
       /\ run[r].log[1].delays = 1
       /\ run[r].pc = "returned"

\* C16: after the placeholder send has failed with its retries used up, no
\* other message is sent or updated for that mention: the failure is not
\* reported to the user.
C16_SendFailureUnreported ==
    \A r \in Runs :
       SendFailed(run[r]) =>
          /\ run[r].op.calls = 0
          /\ \A k \in 2..Len(run[r].log) : run[r].log[k].calls = 0

\* The entry of a key in a tracker: <<handle>>, or <<>> when there is none.
Lookup(tracker, key) ==
    IF key \in DOMAIN tracker THEN <<tracker[key]>> ELSE <<>>

\* The run is at the statement that writes or deletes its tracker entry.
AtMapAccess(rr) ==
    rr.pc \in {"register", "unregister"} /\ rr.mapStep = "access"

InFlight(rr) ==
    rr.pc \in {"register", "backend", "errUpdate", "segUpdate", "pace",
               "finalUpdate"}

Updating(rr) == rr.op.kind = "update"

\* How many UpdateMessage calls of the run have returned at or before
\* position k of its history.
UpdateOrdinal(rr, k) == Cardinality({ j \in Updates(rr) : j <= k })

\* C19: at any moment at most one UpdateMessage is in progress for a given
\* channel and timestamp, and the updates of an answer of n segments reach
\* the placeholder in the order intermediate 1, ..., intermediate n, final:
\* each starts only after the one before it has returned.
C19_UpdatesInOrder ==
    /\ \A r1, r2 \in Runs :
          r1 # r2 /\ Updating(run[r1]) /\ Updating(run[r2]) =>
             << run[r1].op.channel, run[r1].op.ts >> #
                << run[r2].op.channel, run[r2].op.ts >>
    /\ \A r \in Runs :
          LET rr == run[r]
              n == Len(rr.sentences)
          IN  /\ \A k \in Updates(rr) :
                    /\ rr.log[k].channel = rr.event.Channel
                    /\ rr.log[k].ts = rr.ts
              /\ Updating(rr) =>
                    rr.op.channel = rr.event.Channel /\ rr.op.ts = rr.ts
              /\ BackendSucceeded(rr) =>
                    /\ \A k \in Updates(rr) :
                          LET j == UpdateOrdinal(rr, k)
                          IN  /\ j <= n + 1
                              /\ j <= n =>
                                    /\ rr.log[k].phase = "segUpdate"
                                    /\ Len(rr.log[k].text) >=
                                          Len(Joined(rr.sentences, j))
                                    /\ SubStr(rr.log[k].text, 1,
                                              Len(Joined(rr.sentences, j))) =
                                          Joined(rr.sentences, j)
                              /\ j = n + 1 =>
                                    rr.log[k].phase = "finalUpdate"
                    /\ Updating(rr) =>
                          LET j == Cardinality(Updates(rr)) + 1
                          IN  /\ j <= n + 1
                              /\ j <= n => rr.pc = "segUpdate" /\ rr.idx = j
                              /\ j = n + 1 => rr.pc = "finalUpdate"

\* C19 witness: the final update of an answer of two segments is in progress
\* after a failed attempt, both intermediate updates having returned.
C19_Witness ==
    \E r \in Runs :
       /\ run[r].pc = "finalUpdate"
       /\ Updating(run[r])
       /\ run[r].op.calls = 1
       /\ Len(run[r].sentences) = 2
       /\ Cardinality(Updates(run[r])) = 2

\* C20: a run is at a statement that reads or writes ongoingConversations
\* only while it holds the mutex of the bot, from the access until the
\* unlock; so no two runs are inside a map access at the same time.
C20_MapAccessUnderMutex ==
    /\ \A r \in Runs :
          /\ AtMapAccess(run[r]) => mu = r
          /\ run[r].mapStep = "unlock" => mu = r
          /\ mu = r => run[r].pc \in {"register", "unregister"}
                         /\ run[r].mapStep \in {"access", "unlock"}
    /\ \A r1, r2 \in Runs :
          AtMapAccess(run[r1]) /\ AtMapAccess(run[r2]) => r1 = r2

\* C20 witness: the second run is at the delete of its key, holding the
\* mutex.
C20_Witness ==
    /\ AtMapAccess(run[2])
    /\ run[2].pc = "unregister"
    /\ mu = 2

\* The positions of the SendMessage calls HandleAppMention itself has made.
OwnSends(rr) ==
    { k \in 1..Len(rr.log) :
         rr.log[k].kind = "send" /\ rr.log[k].phase # "report" }

C22_NoClientNoEffect ==
    /\ \A r \in Runs :
          run[r].pc # "idle" =>
             /\ run[r].pc \in {"returned", "done"}
             /\ run[r].pc = "returned" =>
                   run[r].result = <<"slack client not initialized">>
             /\ run[r].op = NoOp
             /\ run[r].log = <<>>
             /\ run[r].registered = 0
    /\ applied => output # Nil
    /\ ongoingConversations = [k \in {} |-> 0]
    /\ mu = 0
    /\ handling = 0

\* C22 witness: StartBot has returned its error and a call of
\* HandleAppMention has returned its own.
C22_Witness ==
    /\ applied
    /\ output = <<"slack client is not set for ChatRelayBot">>
    /\ \E r \in Runs :
          /\ run[r].pc = "returned"
          /\ run[r].event.Channel # <<>>
          /\ run[r].result # Nil

\* C23: a retry-wrapped operation that has ended after a >= 1 attempts has
\* slept exactly a-1 retry delays, one after each failed attempt but the
\* last: none after the successful attempt and none after the failed attempt
\* that ends it.  While it runs, every delay follows a failed attempt.
C23_DelaysBetweenAttempts ==
    \A r \in Runs :
       /\ \A k \in 1..Len(run[r].log) :
             LET e == run[r].log[k]
             IN  /\ e.calls >= 1 => e.delays = e.calls - 1
                 /\ e.calls = 0 => e.delays = 0
       /\ LET op == run[r].op
           IN  /\ op.at = "sleep" =>
                     /\ op.last \notin {"none", "ok"}
                     /\ op.delays = op.calls
               /\ op.at = "call" /\ InLoop(op.i, RetryCountOf(op.kind)) =>
                     op.delays = op.calls
               /\ op.at = "call" /\ ~InLoop(op.i, RetryCountOf(op.kind))
                                 /\ op.calls >= 1 =>
                     op.delays = op.calls - 1

\* C23 witness: in one run the backend request succeeded on its second
\* attempt after one delay, and an update failed on both of its attempts
\* with one delay between them.
C23_Witness ==
    \E r \in Runs : \E j, k \in 1..Len(run[r].log) :
       /\ run[r].log[j].kind = "backend"
       /\ run[r].log[j].ok
       /\ run[r].log[j].calls = 2
       /\ run[r].log[j].delays = 1
       /\ run[r].log[k].kind = "update"
       /\ ~run[r].log[k].ok
       /\ run[r].log[k].calls = 2
       /\ run[r].log[k].delays = 1

\* C24: the attempt counter of a retry-wrapped call starts at zero and
\* counts the attempts of that call alone, so every call can make all of
\* its retryCount+1 attempts: a Slack call that fails has made exactly that
\* many, whatever the calls before it have spent.
C24_OwnRetryBudget ==
    \A r \in Runs :
       LET op == run[r].op
           n == RetryCountOf(op.kind)
       IN  /\ op.kind # "none" /\ op.at = "call" => op.i = op.calls
           /\ op.kind # "none" /\ op.at = "sleep" => op.i = op.calls - 1
           /\ op.kind # "none" /\ op.at = "call" /\ op.calls <= n =>
                 InLoop(op.i, n)
           /\ \A k \in 1..Len(run[r].log) :
                 LET e == run[r].log[k]
                 IN  e.kind # "backend" /\ slackRetryCount >= 0 /\ ~e.ok =>
                        e.calls = slackRetryCount + 1

\* C24 witness: after a backend request that needed two attempts and an
\* intermediate update that failed on both of its attempts, the next update
\* has again made two attempts.
C24_Witness ==
    \E r \in Runs : \E j, k \in Updates(run[r]) :
       /\ slackRetryCount = 1
       /\ run[r].log[2].kind = "backend"
       /\ run[r].log[2].calls = 2
       /\ j < k
       /\ ~run[r].log[j].ok
       /\ run[r].log[j].calls = 2
       /\ ~run[r].log[k].ok
       /\ run[r].log[k].calls = 2

\* The text holds a sentence boundary: a '.', '!' or '?' followed by white
\* space.
HasBoundary(s) ==
    \E p \in 1..(Len(s) - 1) :
       s[p] \in {".", "!", "?"} /\ s[p + 1] = " "

\* The text is empty or white space only.
Blank(s) == \A p \in 1..Len(s) : s[p] = " "

\* The text without its leading and trailing white space (not blank).
Inner(s) ==
    LET ink == { p \in 1..Len(s) : s[p] # " " }
        first == CHOOSE p \in ink : \A q \in ink : p <= q
        last == CHOOSE p \in ink : \A q \in ink : q <= p
    IN  [k \in 1..(last - first + 1) |-> s[first + k - 1]]

\* C25: for a text that is not blank and holds no sentence boundary the
\* splitter returns exactly one segment, the text without its leading and
\* trailing white space; split again, that segment gives itself alone.
C25_SingleSentence ==
    applied /\ ~Blank(input) /\ ~HasBoundary(input) =>
       /\ Len(output) = 1
       /\ output[1] = Inner(input)
       /\ splitIntoSentences(output[1]) = output

\* C25 witness: the splitter has run on " a!", a single sentence with a
\* leading blank and a closing mark.
C25_Witness ==
    /\ applied
    /\ input = <<" ", "a", "!">>
    /\ output = << <<"a", "!">> >>

\* The segments occur in the text one after the other, without overlap,
\* from position `from` on.
RECURSIVE InOrder(_, _, _)
InOrder(segs, s, from) ==
    \/ segs = <<>>
    \/ \E p \in from..(Len(s) - Len(Head(segs)) + 1) :
          /\ SubSeq(s, p, p + Len(Head(segs)) - 1) = Head(segs)
          /\ InOrder(Tail(segs), s, p + Len(Head(segs)))

\* C26: every segment the splitter returns is non-empty and neither starts
\* nor ends with white space, and the segments are pieces of the input in
\* the input's order.
C26_SegmentsCleanInOrder ==
    applied =>
       /\ \A k \in 1..Len(output) :
             /\ output[k] # <<>>
             /\ output[k][1] # " "
             /\ output[k][Len(output[k])] # " "
       /\ InOrder(output, input, 1)

\* C26 witness: the splitter has run on the three sentences of HelloText
\* and has returned three segments.
C26_Witness ==
    /\ applied
    /\ input = HelloText
    /\ Len(output) = 3

\* C27 (as stated): once an attempt of SendChatRequest has met a status
\* other than 200, SendChatRequest ends in an error: the step in which the
\* request returns, its latest earlier response being such a status, returns
\* no success value.
C27_OtherStatusEndsInError ==
    [][\A r \in Runs :
          /\ run[r].pc = "backend"
          /\ run[r].op.last = "status"
          /\ run'[r].pc # "backend"
          => ~run'[r].log[Len(run'[r].log)].ok]_vars

\* C27 (amended): SendChatRequest returns a value exactly when its last
\* attempt got status 200 and a body that decodes; the value is the
\* full_response the run goes on with, the request is made once per run and
\* no attempt follows the successful one.  A request whose last attempt met
\* another status, an unreadable or a malformed body, or a transport
\* failure, returns an error and no value, and nothing of an answer is kept.
C27_SuccessIs200AndDecodes ==
    \A r \in Runs :
       LET rr == run[r]
       IN  /\ Cardinality(Entries(rr, "backend")) <= 1
           /\ rr.pc = "backend" => Entries(rr, "backend") = {}
           /\ \A k \in Entries(rr, "backend") :
                 LET e == rr.log[k]
                 IN  /\ e.ok <=> e.last = "ok"
                     /\ e.ok =>
                           /\ e.err = Nil
                           /\ e.value = <<rr.fullResponse>>
                           /\ e.calls <= backendRetryCount + 1
                     /\ ~e.ok =>
                           /\ e.err # Nil
                           /\ e.value = <<>>
                           /\ rr.fullResponse = <<>>
                           /\ Updates(rr) \subseteq Entries(rr, "errUpdate")

\* C27 witness: the first attempt met a failure that is retried, the second
\* got a 200 with a body that decodes, and the request returned its answer.
C27_Witness ==
    \E r \in Runs :
       \E k \in Entries(run[r], "backend") :
          /\ run[r].log[k].calls = 2
          /\ run[r].log[k].ok
          /\ run[r].log[k].value = << <<"a", "?", " ", " ", "b", "!">> >>

\* The query each of the raw texts stands for: the marker of the bot taken
\* out wherever it stands, the white space around the rest taken off.
ExpectedQuery(text) ==
    CASE text = PlainMention -> <<"p", "i", "n", "g">>
      [] text = TwiceMention -> <<"p", "i", "n", "g">>
      [] text = NestedMention ->
           <<"<", "@", "B", ">", " ", "p", "i", "n", "g">>
      [] text = BareMention -> <<>>
      [] text = OtherUserMention ->
           <<"<", "@", "U", "2", ">", " ", "p", "i", "n", "g">>

\* C28: the event a run is given, the backend request it makes and the
\* request it has made carry the text of the mention with the bot's marker
\* removed and the surrounding white space trimmed, and the id of the user
\* who wrote the mention.
C28_QueryForwarded ==
    \A r \in Runs :
       LET rr == run[r]
       IN  rr.pc \notin {"idle", "done"} =>
              /\ rr.event.Text = ExpectedQuery(input.Text)
              /\ rr.event.User = input.User
              /\ rr.event.Channel = input.Channel
              /\ rr.op.kind = "backend" =>
                    /\ rr.op.text = ExpectedQuery(input.Text)
                    /\ rr.op.user = input.User
              /\ \A k \in Entries(rr, "backend") :
                    /\ rr.log[k].text = ExpectedQuery(input.Text)
                    /\ rr.log[k].user = input.User

\* C28 witness: user U2 wrote "  <@B> pi<@B>ng " and the backend request
\* of the run has been made with the query "ping" and the user id U2.
C28_Witness ==
    \E r \in Runs :
       \E k \in Entries(run[r], "backend") :
          /\ input.Text = TwiceMention
          /\ input.User = <<"U", "2">>
          /\ run[r].log[k].calls >= 1
          /\ run[r].log[k].text = <<"p", "i", "n", "g">>
          /\ run[r].log[k].user = <<"U", "2">>

\* The two events differ in their channel or in their user.
DifferentPairs ==
    input[1].Channel # input[2].Channel \/ input[1].User # input[2].User

\* The id holds no '-'.
NoDash(id) == \A p \in 1..Len(id) : id[p] # "-"

Effective(key) ==
    IF input.env[key].exists THEN input.env[key] ELSE input.file[key]

\* Some required variable is unset or empty when LoadConfig looks it up.
RequiredMissing ==
    \E k \in RequiredKeys :
       ~Effective(k).exists \/ Effective(k).value = <<>>

\* C30: LoadConfig returns an error and no configuration when one of the
\* three required variables is unset or empty, and otherwise no error and
\* a configuration that holds the three values, whatever the optional
\* variables hold.
C30_ErrorIffRequiredMissing ==
    applied =>
       /\ RequiredMissing <=> output.err # Nil
       /\ output.err # Nil <=> output.cfg = <<>>
       /\ output.err = Nil =>
             /\ Len(output.cfg) = 1
             /\ output.cfg[1].SlackAppToken = Effective("SLACK_APP_TOKEN").value
             /\ output.cfg[1].SlackBotToken = Effective("SLACK_BOT_TOKEN").value
             /\ output.cfg[1].ChatBackendURL
                   = Effective("CHAT_BACKEND_URL").value

\* C30 witness: SLACK_BOT_TOKEN is set but empty in the environment, the
\* other two required variables have values, an optional variable is
\* malformed, and LoadConfig has returned an error and no configuration.
C30_Witness ==
    /\ applied
    /\ input.env["SLACK_APP_TOKEN"] = Set(<<"x">>)
    /\ input.env["SLACK_BOT_TOKEN"] = Set(<<>>)
    /\ input.env["CHAT_BACKEND_URL"] = Set(<<"x">>)
    /\ input.env["SLACK_API_RETRY_COUNT"] = Set(<<"1", "x">>)
    /\ output.err # Nil
    /\ output.cfg = <<>>

\* What each value an optional retry count is given stands for: the number
\* it writes, or 3 when it is unset, empty or no number.
ExpectedCount(var) ==
    CASE ~var.exists -> 3
      [] var.exists /\ var.value = <<>> -> 3
      [] var.exists /\ var.value = <<"2">> -> 2
      [] var.exists /\ var.value = <<"-", "1">> -> 0 - 1
      [] var.exists /\ var.value = <<"1", "x">> -> 3

\* What each value an optional duration is given stands for, in
\* milliseconds: the duration it writes, or the default when it is unset,
\* empty or no duration ("2" has no unit).
ExpectedDuration(var, defaultValue) ==
    CASE ~var.exists -> defaultValue
      [] var.exists /\ var.value = <<>> -> defaultValue
      [] var.exists /\ var.value = <<"2", "s">> -> 2000
      [] var.exists /\ var.value = <<"2">> -> defaultValue

\* C31: when LoadConfig looks them up, each optional timeout, retry count
\* and retry delay gives its parsed value when it parses and otherwise its
\* default (30s for REQUEST_TIMEOUT, 3 for the retry counts, 1s for the
\* retry delays), and a value that does not parse never makes LoadConfig
\* return an error: with the required variables present it returns the
\* configuration.
C31_OptionalDefaults ==
    applied =>
       /\ ~RequiredMissing => output.err = Nil /\ Len(output.cfg) = 1
       /\ output.err = Nil =>
             LET cfg == output.cfg[1]
             IN  /\ cfg.RequestTimeout
                       = ExpectedDuration(Effective("REQUEST_TIMEOUT"), 30000)
                 /\ cfg.SlackAPIRetryCount
                       = ExpectedCount(Effective("SLACK_API_RETRY_COUNT"))
                 /\ cfg.SlackAPIRetryDelay
                       = ExpectedDuration(Effective("SLACK_API_RETRY_DELAY"),
                                          1000)
                 /\ cfg.BackendAPIRetryCount
                       = ExpectedCount(Effective("BACKEND_API_RETRY_COUNT"))
                 /\ cfg.BackendAPIRetryDelay
                       = ExpectedDuration(Effective("BACKEND_API_RETRY_DELAY"),
                                          1000)

\* C31 witness: LoadConfig has returned a configuration for an environment
\* with a malformed retry count, a well-formed one, a timeout without a
\* unit, an empty delay and a well-formed delay.
C31_Witness ==
    /\ applied
    /\ input.env["SLACK_API_RETRY_COUNT"] = Set(<<"1", "x">>)
    /\ input.env["BACKEND_API_RETRY_COUNT"] = Set(<<"-", "1">>)
    /\ input.env["REQUEST_TIMEOUT"] = Set(<<"2">>)
    /\ input.env["SLACK_API_RETRY_DELAY"] = Set(<<>>)
    /\ input.env["BACKEND_API_RETRY_DELAY"] = Set(<<"2", "s">>)
    /\ output.err = Nil
    /\ output.cfg[1].SlackAPIRetryCount = 3
    /\ output.cfg[1].BackendAPIRetryCount = 0 - 1
    /\ output.cfg[1].RequestTimeout = 30000
    /\ output.cfg[1].SlackAPIRetryDelay = 1000
    /\ output.cfg[1].BackendAPIRetryDelay = 2000

\* The run has written its tracker entry and has neither deleted it nor
\* returned.
Registered(rr) ==
    /\ rr.registered = 1
    /\ rr.unregistered = 0
    /\ rr.pc \notin {"idle", "returned", "done"}

C33_AtLeastOneAttempt ==
    \A r \in Runs :
       \A k \in 1..Len(run[r].log) :
          baseURLValid /\ ~run[r].log[k].ok => run[r].log[k].calls >= 1

\* C34: every run of HandleAppMention that has started returns, with a
\* result or an error, whatever the retry counts, the answer and the
\* failures of its calls are.
C34_RunReturns ==
    \A r \in Runs : (run[r].pc = "send") ~> (run[r].pc = "returned")

\* C34 witness: a run has returned after a call of it used its whole retry
\* budget of two attempts and after a pacing delay.
C34_Witness ==
    \E r \in Runs :
       /\ run[r].pc = "returned"
       /\ run[r].paces >= 1
       /\ \E k \in 1..Len(run[r].log) :
             ~run[r].log[k].ok /\ run[r].log[k].calls = 2

\* C35: when handleEventsAPIEvent is through with a mention whose run
\* returned an error, it has called SendMessage exactly once after the
\* return, for a new message in the channel of the event with the text that
\* reports the error, and that call is the last of the mention; when the run
\* returned no error it has called nothing after the return.
C35_OneReportPerError ==
    [][\A r \in Runs :
          run[r].pc # "done" /\ run'[r].pc = "done" =>
             LET rr == run[r]
                 reports == Entries(rr, "report")
             IN  IF rr.result # Nil
                 THEN /\ rr.pc = "reported"
                      /\ reports = {Len(rr.log)}
                      /\ \A k \in reports :
                            /\ rr.log[k].kind = "send"
                            /\ rr.log[k].ts = 0
                            /\ rr.log[k].channel = rr.event.Channel
                            /\ rr.log[k].text = OopsText(rr.result)
                            /\ rr.log[k].calls <= slackRetryCount + 1
                 ELSE /\ rr.pc = "returned"
                      /\ reports = {}
                      /\ rr.op.kind = "none"]_vars

\* C35 witness: a run returned the error of a failed backend request after
\* its placeholder was posted, and the report has been sent as a message
\* of its own.
C35_Witness ==
    \E r \in Runs :
       /\ run[r].pc = "reported"
       /\ BackendFailed(run[r])
       /\ \E k \in Entries(run[r], "report") :
             /\ run[r].log[k].ok
             /\ run[r].log[k].value # <<run[r].ts>>

\* C36: a run whose backend answer is empty or white space only makes no
\* intermediate update and no pacing delay; it makes one final update, with
\* the answer followed by the footer, and returns an error exactly when
\* that update failed.
C36_BlankAnswer ==
    \A r \in Runs :
       LET rr == run[r]
       IN  BackendSucceeded(rr) /\ Blank(BackendEntry(rr).value[1]) =>
              LET final == Entries(rr, "finalUpdate")
              IN  /\ Entries(rr, "segUpdate") = {}
                  /\ rr.paces = 0
                  /\ rr.pc \notin {"segUpdate", "pace", "errUpdate"}
                  /\ Updates(rr) = final
                  /\ Cardinality(final) <= 1
                  /\ \A k \in final :
                        rr.log[k].text
                           = BackendEntry(rr).value[1]
                                \o <<"\n\n_Powered by ChatRelay_">>
                  /\ Returned(rr) =>
                        /\ Cardinality(final) = 1
                        /\ rr.result # Nil <=>
                              \E k \in final : ~rr.log[k].ok

\* C36 witness: the backend answered with one blank and the run has
\* returned after its only update, the final one.
C36_Witness ==
    \E r \in Runs :
       /\ run[r].pc = "returned"
       /\ run[r].result = Nil
       /\ BackendSucceeded(run[r])
       /\ BackendEntry(run[r]).value = << <<" ">> >>
       /\ Cardinality(Updates(run[r])) = 1

\* C37: a run makes one pacing delay after each intermediate update, failed
\* or not, before its next update: while it sleeps the delays that ended
\* are one fewer than the intermediate updates made, otherwise as many; a
\* delay starts only right after an intermediate update; and once the final
\* update is under way or made the delays are as many as the segments and
\* stay so.
C37_OnePacePerSegment ==
    \A r \in Runs :
       LET rr == run[r]
           segs == Entries(rr, "segUpdate")
           n == Len(rr.sentences)
       IN  BackendSucceeded(rr) =>
              /\ rr.paces
                    = Cardinality(segs) - (IF rr.pc = "pace" THEN 1 ELSE 0)
              /\ rr.pc = "pace" =>
                    /\ rr.log # <<>>
                    /\ rr.log[Len(rr.log)].phase = "segUpdate"
              /\ rr.pc = "segUpdate" => rr.idx = rr.paces + 1
              /\ rr.pc \in {"finalUpdate", "unregister"} \/ Returned(rr) =>
                    /\ rr.paces = n
                    /\ Cardinality(segs) = n
              /\ \A k \in Entries(rr, "finalUpdate") : \A j \in segs : j < k

\* C37 witness: a run with two segments has returned after two pacing
\* delays, the first of which followed a failed intermediate update.
C37_Witness ==
    \E r \in Runs :
       /\ Returned(run[r])
       /\ Len(run[r].sentences) = 2
       /\ run[r].paces = 2
       /\ \E k \in Entries(run[r], "segUpdate") :
             /\ ~run[r].log[k].ok
             /\ run[r].log[k + 1].phase = "segUpdate"

=============================================================================
